---- MODULE Spec2Model ----
(***************************************************************************)
(* A model of connect.py, the PEP connection parser.  A text is a sequence *)
(* of one-character strings, so that the regular expressions, str methods  *)
(* and f-strings of the source are modelled by what they do to characters. *)
(* File-system calls are assumed to succeed; the body converter            *)
(* rst_to_myst is an external library whose outcome is a choice.           *)
(***************************************************************************)
EXTENDS Integers, Sequences, FiniteSets, TLC

\* ------------------------------------------------------------------ str

Digits == {"0", "1", "2", "3", "4", "5", "6", "7", "8", "9"}

\* the characters the regular expression class \s matches
Whitespace == {" ", "\t", "\n", "\r"}

UpperCase == <<"A","B","C","D","E","F","G","H","I","J","K","L","M","N","O","P","Q","R","S","T","U","V","W","X","Y","Z">>

LowerCase == <<"a","b","c","d","e","f","g","h","i","j","k","l","m","n","o","p","q","r","s","t","u","v","w","x","y","z">>

\* the characters of the model in code point order; a TLA+ string cannot hold a
\* backquote, which is written ' throughout
CodePoints == <<"\t","\n"," ","!","#","-",".","0","1","2","3","4","5","6","7","8","9",":","<",">","@","A","B","C","D","E","F","G","H","I","J","K","L","M","N","O","P","Q","R","S","T","U","V","W","X","Y","Z","[","]","'","a","b","c","d","e","f","g","h","i","j","k","l","m","n","o","p","q","r","s","t","u","v","w","x","y","z">>

ord(c) == CHOOSE k \in 1..Len(CodePoints) : CodePoints[k] = c

\* str.lower
lower(s) ==
  [i \in 1..Len(s) |->
     IF \E k \in 1..Len(UpperCase) : UpperCase[k] = s[i]
     THEN LowerCase[CHOOSE k \in 1..Len(UpperCase) : UpperCase[k] = s[i]]
     ELSE s[i]]

\* s[i:] starts with lit (i is 1-based)
startswith(s, i, lit) ==
  /\ i + Len(lit) - 1 <= Len(s)
  /\ \A k \in 1..Len(lit) : s[i + k - 1] = lit[k]

Min(set) == CHOOSE x \in set : \A y \in set : x <= y

\* str.find, 1-based; 0 when sub does not occur
find(s, sub) ==
  LET at == {i \in 1..Len(s) : startswith(s, i, sub)}
  IN  IF at = {} THEN 0 ELSE Min(at)

\* str.replace
RECURSIVE replace(_, _, _)
replace(s, old, new) ==
  IF Len(s) < Len(old) THEN s
  ELSE IF startswith(s, 1, old)
       THEN new \o replace(SubSeq(s, Len(old) + 1, Len(s)), old, new)
       ELSE <<s[1]>> \o replace(Tail(s), old, new)

\* str.split(sep)
RECURSIVE split(_, _)
split(s, sep) ==
  LET i == find(s, sep)
  IN  IF i = 0 THEN <<s>>
      ELSE <<SubSeq(s, 1, i - 1)>> \o split(SubSeq(s, i + Len(sep), Len(s)), sep)

\* str.strip
RECURSIVE lstrip(_)
lstrip(s) ==
  IF s # <<>> /\ s[1] \in Whitespace THEN lstrip(Tail(s)) ELSE s

RECURSIVE rstrip(_)
rstrip(s) ==
  IF s # <<>> /\ s[Len(s)] \in Whitespace THEN rstrip(SubSeq(s, 1, Len(s) - 1)) ELSE s

strip(s) == rstrip(lstrip(s))

\* str.rjust(width, fillchar)
rjust(s, width, fillchar) ==
  IF Len(s) >= width THEN s ELSE [i \in 1..(width - Len(s)) |-> fillchar] \o s

\* str.splitlines for "\n" line ends
RECURSIVE splitlines(_)
splitlines(s) ==
  IF s = <<>> THEN <<>>
  ELSE LET i == find(s, <<"\n">>)
       IN  IF i = 0 THEN <<s>>
           ELSE <<SubSeq(s, 1, i - 1)>> \o splitlines(SubSeq(s, i + 1, Len(s)))

\* the elements of a sequence
Range(f) == {f[i] : i \in DOMAIN f}

\* ------------------------------------------------------------------- re

\* one past the end of what (.*) matches from i: the next newline or the end
LineEnd(s, i) ==
  LET at == {j \in i..Len(s) : s[j] = "\n"}
  IN  IF at = {} THEN Len(s) + 1 ELSE Min(at)

\* one past the end of what \s* matches from i
RECURSIVE SkipSpace(_, _)
SkipSpace(s, i) ==
  IF i <= Len(s) /\ s[i] \in Whitespace THEN SkipSpace(s, i + 1) ELSE i

\* re.findall(label + r"\s+(.*)", s) searched from position i
RECURSIVE findall_field(_, _, _)
findall_field(label, s, i) ==
  LET at == {j \in i..Len(s) :
               /\ startswith(s, j, label)
               /\ j + Len(label) <= Len(s)
               /\ s[j + Len(label)] \in Whitespace}
  IN  IF at = {} THEN <<>>
      ELSE LET j == SkipSpace(s, Min(at) + Len(label))
               e == LineEnd(s, j)
           IN  <<SubSeq(s, j, e - 1)>> \o findall_field(label, s, e)

\* re.findall(literal + r"(.*)", s) searched from position i
RECURSIVE findall_rest(_, _, _)
findall_rest(literal, s, i) ==
  LET at == {j \in i..Len(s) : startswith(s, j, literal)}
  IN  IF at = {} THEN <<>>
      ELSE LET j == Min(at) + Len(literal)
               e == LineEnd(s, j)
           IN  <<SubSeq(s, j, e - 1)>> \o findall_rest(literal, s, e)

\* how many of the characters s[i], s[i+1], ... are digits, counted up to most
RECURSIVE DigitRun(_, _, _)
DigitRun(s, i, most) ==
  IF most > 0 /\ i <= Len(s) /\ s[i] \in Digits
  THEN 1 + DigitRun(s, i + 1, most - 1)
  ELSE 0

MinDigits == 3

MaxDigits == 4

\* length of what ([0-9]{3,4}) followed by the literal closer matches at i, 0 for
\* no match: the greedy 4 digits first, then 3
DigitsMatch(s, i, closer) ==
  LET n == DigitRun(s, i, MaxDigits)
  IN  IF n >= MaxDigits /\ startswith(s, i + MaxDigits, closer) THEN MaxDigits
      ELSE IF n >= MinDigits /\ startswith(s, i + MinDigits, closer) THEN MinDigits
      ELSE 0

\* re.findall(opener + r"([0-9]{3,4})" + closer, s) searched from position i
RECURSIVE findall_digits(_, _, _, _)
findall_digits(opener, closer, s, i) ==
  LET at == {j \in i..Len(s) :
               startswith(s, j, opener) /\ DigitsMatch(s, j + Len(opener), closer) > 0}
  IN  IF at = {} THEN <<>>
      ELSE LET j == Min(at) + Len(opener)
               n == DigitsMatch(s, j, closer)
           IN  <<SubSeq(s, j, j + n - 1)>>
                 \o findall_digits(opener, closer, s, j + n + Len(closer))

\* ----------------------------------------------------------- connect.py

\* the outcome of a call: the value returned, or the exception that propagates
Return(v) == [exc |-> "", val |-> v]

IndexError == [exc |-> "IndexError", val |-> <<>>]

ValueError == [exc |-> "ValueError", val |-> <<>>]

\* Optional[str]
None == <<>>

Some(s) == <<s>>

slugify(string) == replace(replace(lower(string), <<" ">>, <<"-">>), <<"!">>, <<>>)

MentionPatterns ==
  { [opener |-> <<"P","E","P"," ">>, closer |-> <<>>],
    [opener |-> <<":","p","e","p",":","'">>, closer |-> <<"'">>],
    [opener |-> <<"R","e","p","l","a","c","e","s",":"," ">>, closer |-> <<>>],
    [opener |-> <<"R","e","q","u","i","r","e","s",":"," ">>, closer |-> <<>>],
    [opener |-> <<"S","u","p","e","r","s","e","d","e","d","-","B","y",":"," ">>, closer |-> <<>>] }

IdentifierWidth == 4

\* a slip that drops the mention of the document itself
get_mentioned_peps_but_own(pep_content) ==
  UNION { { rjust(mentioned_pep, IdentifierWidth, "0") :
              mentioned_pep \in
                Range(findall_digits(pattern.opener, pattern.closer, pep_content, 1)) } :
          pattern \in MentionPatterns }
    \ {rjust(own, IdentifierWidth, "0") :
         own \in Range(findall_field(<<"P","E","P",":">>, pep_content, 1))}

get_mentioned_peps(pep_content) ==
  UNION { { rjust(mentioned_pep, IdentifierWidth, "0") :
              mentioned_pep \in
                Range(findall_digits(pattern.opener, pattern.closer, pep_content, 1)) } :
          pattern \in MentionPatterns }

\* a slip that leaves the padding out
get_identifier_unpadded(pep_content) ==
  LET found == findall_field(<<"P","E","P",":">>, pep_content, 1)
  IN  IF found = <<>> THEN IndexError ELSE Return(found[1])

get_identifier(pep_content) ==
  LET found == findall_field(<<"P","E","P",":">>, pep_content, 1)
  IN  IF found = <<>> THEN IndexError
      ELSE Return(rjust(found[1], IdentifierWidth, "0"))

get_title(pep_content) ==
  LET found == findall_field(<<"T","i","t","l","e",":">>, pep_content, 1)
  IN  IF found = <<>> THEN IndexError ELSE Return(found[1])

\* a slip that writes the pattern of the optional fields: r"Status: (.*)"
get_status_one_space(pep_content) ==
  LET found == findall_rest(<<"S","t","a","t","u","s",":"," ">>, pep_content, 1)
  IN  IF found = <<>> THEN IndexError ELSE Return(slugify(found[1]))

get_status(pep_content) ==
  LET found == findall_field(<<"S","t","a","t","u","s",":">>, pep_content, 1)
  IN  IF found = <<>> THEN IndexError ELSE Return(slugify(found[1]))

get_type(pep_content) ==
  LET found == findall_field(<<"T","y","p","e",":">>, pep_content, 1)
  IN  IF found = <<>> THEN IndexError ELSE Return(slugify(found[1]))

get_topics(pep_content) ==
  LET found == findall_rest(<<"T","o","p","i","c",":"," ">>, pep_content, 1)
  IN  IF found = <<>> THEN {}
      ELSE {slugify(topic) : topic \in Range(split(found[1], <<","," ">>))}

get_authors(pep_content) ==
  LET authors == findall_rest(<<"A","u","t","h","o","r",":"," ">>, pep_content, 1)
  IN  IF authors # <<>>
      THEN {strip(split(author, <<" ","<">>)[1]) : author \in Range(split(authors[1], <<","," ">>))}
      ELSE {}

get_delegate(pep_content) ==
  LET bdfl_delegates == findall_rest(<<"B","D","F","L","-","D","e","l","e","g","a","t","e",":"," ">>, pep_content, 1)
      pep_delegates == findall_rest(<<"P","E","P","-","D","e","l","e","g","a","t","e",":"," ">>, pep_content, 1)
      either == IF bdfl_delegates # <<>> THEN bdfl_delegates ELSE pep_delegates
  IN  IF either # <<>> THEN Some(strip(split(either[1], <<" ","<">>)[1])) ELSE None

PEP_FILENAME_PATTERN(name) ==
  /\ startswith(name, 1, <<"p","e","p","-">>)
  /\ \E n \in {MinDigits, MaxDigits} :
       /\ DigitRun(name, 5, n) = n
       /\ Len(name) = 4 + n + 4
       /\ SubSeq(name, 4 + n + 2, Len(name)) \in {<<"t","x","t">>, <<"r","s","t">>}

\* Path(".").glob("pep-*")
glob(names) == {name \in names : startswith(name, 1, <<"p","e","p","-">>)}

\* a < b as str
RECURSIVE less(_, _)
less(a, b) ==
  IF b = <<>> THEN FALSE
  ELSE IF a = <<>> THEN TRUE
  ELSE IF a[1] = b[1] THEN less(Tail(a), Tail(b))
  ELSE ord(a[1]) < ord(b[1])

RECURSIVE sorted(_)
sorted(names) ==
  IF names = {} THEN <<>>
  ELSE LET first == CHOOSE a \in names : \A b \in names \ {a} : less(a, b)
       IN  <<first>> \o sorted(names \ {first})

ErrorMarker == <<"E","r","r","o","r"," ","c","o","n","v","e","r","t","i","n","g"," ","t","o"," ","m","a","r","k","d","o","w","n",".">>

\* a first-write-wins slip: connects[pep_identifier].setdefault(key, value)
setdefault(connects, pep_identifier, key, value) ==
  LET info == IF pep_identifier \in DOMAIN connects THEN connects[pep_identifier] ELSE <<>>
  IN  (pep_identifier :> (info @@ (key :> value))) @@ connects

\* connects[pep_identifier][key] = value on the defaultdict; order is the
\* insertion order of its keys
setitem(connects, pep_identifier, key, value) ==
  LET info == IF pep_identifier \in DOMAIN connects THEN connects[pep_identifier] ELSE <<>>
  IN  (pep_identifier :> ((key :> value) @@ info)) @@ connects

inserted(order, pep_identifier) ==
  IF pep_identifier \in Range(order) THEN order ELSE Append(order, pep_identifier)

\* the assignments of one iteration of the loop of __main__ over pep_content,
\* markdown being the value assigned first: the mapping they leave, and the
\* exception that ends the run, if any
assign(pep_content, markdown, connects, order) ==
  LET pep_identifier == get_identifier(pep_content)
      id == pep_identifier.val
      c1 == setitem(connects, id, "markdown", markdown)
      c2 == setitem(c1, id, "mentions", get_mentioned_peps(pep_content))
      status == get_status(pep_content)
      c3 == setitem(c2, id, "status", status.val)
      c4 == setitem(c3, id, "topics", get_topics(pep_content))
      title == get_title(pep_content)
      c5 == setitem(c4, id, "title", title.val)
      type == get_type(pep_content)
      c6 == setitem(c5, id, "type", type.val)
      c7 == setitem(c6, id, "authors", get_authors(pep_content))
      c8 == setitem(c7, id, "delegate", get_delegate(pep_content))
  IN  IF pep_identifier.exc # ""
      THEN [exc |-> pep_identifier.exc, connects |-> connects, order |-> order]
      ELSE IF status.exc # ""
      THEN [exc |-> status.exc, connects |-> c2, order |-> inserted(order, id)]
      ELSE IF title.exc # ""
      THEN [exc |-> title.exc, connects |-> c4, order |-> inserted(order, id)]
      ELSE IF type.exc # ""
      THEN [exc |-> type.exc, connects |-> c5, order |-> inserted(order, id)]
      ELSE [exc |-> "", connects |-> c8, order |-> inserted(order, id)]

\* a slip that leaves the try/except out: the ValueError propagates
build_uncaught(pep_content, converted, connects, order) ==
  IF get_identifier(pep_content).exc = "" /\ converted.exc # ""
  THEN [exc |-> converted.exc, connects |-> connects, order |-> order]
  ELSE assign(pep_content, converted.val, connects, order)

\* one iteration of the loop of __main__ over pep_content, where converted is the
\* outcome of rst_to_myst(pep_content).text, whose ValueError is caught
build(pep_content, converted, connects, order) ==
  assign(pep_content,
         IF converted.exc = "ValueError" THEN ErrorMarker ELSE converted.val,
         connects, order)

\* a slip that keeps the directory: Path("output").mkdir(exist_ok=True) alone
keep_output_dir(output) == output

\* shutil.rmtree("output", ignore_errors=True); Path("output").mkdir()
create_clean_output_dir(output) == <<>>

\* Path(f"output/{name}").touch()
touch(output, name) ==
  IF name \in DOMAIN output THEN output ELSE (name :> <<>>) @@ output

RECURSIVE touch_all(_, _)
touch_all(output, names) ==
  IF names = <<>> THEN output ELSE touch_all(touch(output, Head(names)), Tail(names))

\* the text written by output_file.write over the items of a sequence
RECURSIVE join(_)
join(texts) == IF texts = <<>> THEN <<>> ELSE Head(texts) \o join(Tail(texts))

\* the orders in which a for loop may iterate a set
Orderings(set) ==
  {f \in [1..Cardinality(set) -> set] : Range(f) = set}

\* re.sub(r"^#", "###", line)
demote(line) ==
  IF line # <<>> /\ line[1] = "#" THEN <<"#","#","#">> \o Tail(line) ELSE line

\* bool(info["delegate"])
truthy(delegate) == delegate # None /\ delegate[1] # <<>>

\* what one iteration of the loop of output_markdown writes to output_file, the
\* sets iterated in the orders given
written(pep, info, topics, mentions, authors) ==
  <<"-","-","-","\n">>
  \o <<"s","t","a","t","u","s",":"," ">> \o info.status \o <<"\n">>
  \o <<"t","y","p","e",":"," ">> \o info.type \o <<"\n">>
  \o (IF info.topics # {}
      THEN <<"t","o","p","i","c","s",":","\n">> \o join([i \in DOMAIN topics |-> <<"-"," ">> \o topics[i] \o <<"\n">>])
      ELSE <<>>)
  \o <<"-","-","-","\n">>
  \o <<"\n","#"," ","P","E","P"," ">> \o pep \o <<":"," ">> \o info.title \o <<"\n","\n">>
  \o (IF info.mentions # {}
      THEN <<"#","#"," ","M","e","n","t","i","o","n","s","\n","\n">>
             \o join([i \in DOMAIN mentions |-> <<"-"," ","[","[">> \o mentions[i] \o <<"]","]","\n">>])
      ELSE <<>>)
  \o (IF info.authors # {}
      THEN <<"\n","#","#"," ","A","u","t","h","o","r","s","\n","\n">>
             \o join([i \in DOMAIN authors |-> <<"-"," ","[","[">> \o authors[i] \o <<"]","]","\n">>])
      ELSE <<>>)
  \o (IF truthy(info.delegate)
      THEN <<"\n","#","#"," ","D","e","l","e","g","a","t","e","\n","\n">> \o <<"[","[">> \o info.delegate[1] \o <<"]","]","\n">>
      ELSE <<>>)
  \o <<"\n","#","#"," ","C","o","n","t","e","n","t","\n","\n">>
  \o join([i \in DOMAIN splitlines(info.markdown) |->
             demote(splitlines(info.markdown)[i]) \o <<"\n">>])

\* a slip that touches no stub for the delegate
stubs_of_authors(info, authors) == [i \in DOMAIN authors |-> authors[i] \o <<".","m","d">>]

\* a slip that touches no stub for the authors
stubs_of_delegate(info, authors) ==
  IF truthy(info.delegate) THEN <<info.delegate[1] \o <<".","m","d">>>> ELSE <<>>

\* the stub files one iteration of the loop of output_markdown touches
stubs(info, authors) ==
  [i \in DOMAIN authors |-> authors[i] \o <<".","m","d">>]
  \o (IF truthy(info.delegate) THEN <<info.delegate[1] \o <<".","m","d">>>> ELSE <<>>)

\* one iteration of the loop of output_markdown: the output directory it leaves
output_markdown(output, pep, info, topics, mentions, authors) ==
  LET output_path == pep \o <<".","m","d">>
      touched == touch_all(touch(output, output_path), stubs(info, authors))
  IN  [touched EXCEPT ![output_path] = @ \o written(pep, info, topics, mentions, authors)]

\* --------------------------------------------------------------- inputs

\* the most files the working directory holds
MaxFiles == 2

Files ==
  { [name |-> <<"p","e","p","-","0","4","4","0",".","r","s","t">>,
     content |-> <<"P","E","P",":"," ","4","4","0","\n","T","i","t","l","e",":"," ","V","\n","A","u","t","h","o","r",":"," ","A","l"," ","B"," ","<","a","@","x",">",","," ","C","y","\n","B","D","F","L","-","D","e","l","e","g","a","t","e",":"," ","D","i"," ","<","d","@","x",">","\n","P","E","P","-","D","e","l","e","g","a","t","e",":"," ","E","d","\n","S","t","a","t","u","s",":"," ","F","i","n","a","l","\n","T","y","p","e",":"," ","S","t","a","n","d","a","r","d","s"," ","T","r","a","c","k","\n","T","o","p","i","c",":"," ","P","a","c","k","a","g","i","n","g",","," ","B","i","g"," ","D","e","a","l","!","\n","R","e","q","u","i","r","e","s",":"," ","4","5","7","\n","\n","S","e","e"," ","P","E","P"," ","4","4","0"," ","a","n","d"," ",":","p","e","p",":","'","8","'",".","\n">>],
    [name |-> <<"p","e","p","-","4","4","0",".","t","x","t">>,
     content |-> <<"P","E","P",":"," ","4","4","0","\n","T","i","t","l","e",":"," ","W","\n","A","u","t","h","o","r",":"," ","B","o","\n","S","t","a","t","u","s",":"," ","D","r","a","f","t","\n","T","y","p","e",":"," ","P","r","o","c","e","s","s","\n">>],
    [name |-> <<"p","e","p","-","0","4","5","7",".","r","s","t">>,
     content |-> <<"P","E","P",":"," ","4","5","7","\n","T","i","t","l","e",":"," ","X","\n","A","u","t","h","o","r",":"," ","C","y","\n","P","E","P","-","D","e","l","e","g","a","t","e",":"," ","A","l"," ","B","\n","S","t","a","t","u","s",":"," ","A","c","t","i","v","e","\n","T","y","p","e",":"," ","I","n","f","o","r","m","a","t","i","o","n","a","l","\n","R","e","p","l","a","c","e","s",":"," ","4","4","0","\n">>],
    [name |-> <<"p","e","p","-","0","8","0","0",".","t","x","t">>,
     content |-> <<"P","E","P",":"," ","8","0","0","\n","T","i","t","l","e",":"," ","S","\n","T","y","p","e",":"," ","P","r","o","c","e","s","s","\n">>],
    [name |-> <<"p","e","p","-","0","0","1","2",".","r","s","t">>,
     content |-> <<"P","E","P",":"," "," ","1","2","\n","T","i","t","l","e",":"," ","T","\n","A","u","t","h","o","r",":"," ","C","y","\n","B","D","F","L","-","D","e","l","e","g","a","t","e",":"," ","\n","P","E","P","-","D","e","l","e","g","a","t","e",":"," ","E","d","\n","S","t","a","t","u","s",":","\t","D","r","a","f","t","\n","T","y","p","e",":"," ","P","r","o","c","e","s","s","\n">>],
    [name |-> <<"p","e","p","-","f","o","o",".","t","x","t">>,
     content |-> <<"P","E","P",":"," ","9","\n","T","i","t","l","e",":"," ","U","\n","S","t","a","t","u","s",":"," ","D","r","a","f","t","\n","T","y","p","e",":"," ","P","r","o","c","e","s","s","\n">>],
    [name |-> <<"R","E","A","D","M","E",".","r","s","t">>,
     content |-> <<"S","e","e"," ","P","E","P"," ","4","4","0",".","\n">>] }

\* the working directories: at most MaxFiles of the files, no name twice
Workdirs ==
  {w \in SUBSET Files :
     /\ Cardinality(w) <= MaxFiles
     /\ \A f, g \in w : f.name = g.name => f = g}

\* what the output directory may hold before the run
PriorOutputs ==
  { <<>>,
    (<<"0","4","4","0",".","m","d">> :> <<"o","l","d"," ","0","4","4","0","\n">>) @@ (<<"C","y",".","m","d">> :> <<"o","l","d"," ","C","y","\n">>)
      @@ (<<"9","9","9","9",".","m","d">> :> <<"o","l","d"," ","9","9","9","9","\n">>) }

\* what rst_to_myst(pep_content).text may do
Conversions == {ValueError, Return(<<"#"," ","H","\n","b","o","d","y","\n">>)}

\* ---------------------------------------------------------------- state

VARIABLES
  workdir,    \* the files of the working directory
  prior,      \* the output directory as it was before the run
  output,     \* the output directory: file name -> content
  connects,   \* the mapping of __main__
  order,      \* the insertion order of the keys of connects
  paths,      \* the sorted paths the loop of __main__ has yet to visit
  opened,     \* the names of the files opened so far, in order
  conversion, \* file name -> the outcome of its conversion
  pc,         \* "build", "render", "done" or "aborted"
  failure,    \* the exception that ended the run
  position,   \* how many items of connects output_markdown has written
  subject,    \* a header field under test: its label and its value
  calls,      \* whitespace after the label -> what the extraction returned
  tokens,     \* the mentions of a text under test, in order
  mentioned   \* what get_mentioned_peps returned for that text

runvars == <<workdir, prior, output, connects, order, paths, opened, conversion, pc,
             failure, position>>

fieldvars == <<subject, calls>>

mentionvars == <<tokens, mentioned>>

vars == <<runvars, fieldvars, mentionvars>>

NotCalled == [called |-> FALSE, peps |-> {}]

\* the run does not start
NoRun ==
  /\ workdir = {}
  /\ prior = <<>>
  /\ output = <<>>
  /\ connects = <<>>
  /\ order = <<>>
  /\ paths = <<>>
  /\ opened = <<>>
  /\ conversion = <<>>
  /\ pc = "off"
  /\ failure = ""
  /\ position = 0

NoField == subject = [label |-> <<>>, value |-> <<>>] /\ calls = <<>>

NoMentions == tokens = <<>> /\ mentioned = NotCalled

content_of(name) == (CHOOSE f \in workdir : f.name = name).content

Init ==
  /\ workdir \in Workdirs
  /\ prior \in PriorOutputs
  /\ output = prior
  /\ connects = <<>>
  /\ order = <<>>
  /\ paths = sorted(glob({f.name : f \in workdir}))
  /\ opened = <<>>
  /\ conversion = <<>>
  /\ pc = "build"
  /\ failure = ""
  /\ position = 0
  /\ NoField
  /\ NoMentions

\* an iteration of the loop of __main__ that completes
Build ==
  /\ pc = "build"
  /\ paths # <<>>
  /\ \E converted \in Conversions :
       LET pep_path == Head(paths)
           built == build(content_of(pep_path), converted, connects, order)
       IN  /\ built.exc = ""
           /\ connects' = built.connects
           /\ order' = built.order
           /\ opened' = Append(opened, pep_path)
           /\ conversion' = (pep_path :> converted) @@ conversion
           /\ paths' = Tail(paths)
  /\ UNCHANGED <<workdir, prior, output, pc, failure, position, fieldvars, mentionvars>>

\* an iteration of the loop of __main__ out of which an exception propagates,
\* the output directory left as directory
Raised(directory) ==
  /\ pc = "build"
  /\ paths # <<>>
  /\ \E converted \in Conversions :
       LET pep_path == Head(paths)
           built == build(content_of(pep_path), converted, connects, order)
       IN  /\ built.exc # ""
           /\ connects' = built.connects
           /\ order' = built.order
           /\ opened' = Append(opened, pep_path)
           /\ conversion' = (pep_path :> converted) @@ conversion
           /\ failure' = built.exc
           /\ pc' = "aborted"
  /\ output' = directory
  /\ UNCHANGED <<workdir, prior, paths, position, fieldvars, mentionvars>>

\* a slip that calls create_clean_output_dir() before the loop
BuildRaisesAfterReset == Raised(create_clean_output_dir(output))

BuildRaises == Raised(output)

\* create_clean_output_dir(), once the loop of __main__ has ended
CreateCleanOutputDir ==
  /\ pc = "build"
  /\ paths = <<>>
  /\ output' = create_clean_output_dir(output)
  /\ pc' = "render"
  /\ UNCHANGED <<workdir, prior, connects, order, paths, opened, conversion,
                 failure, position, fieldvars, mentionvars>>

\* an iteration of the loop of output_markdown
OutputMarkdown ==
  /\ pc = "render"
  /\ position < Len(order)
  /\ LET pep == order[position + 1]
         info == connects[pep]
     IN  \E topics \in Orderings(info.topics), mentions \in Orderings(info.mentions),
            authors \in Orderings(info.authors) :
           output' = output_markdown(output, pep, info, topics, mentions, authors)
  /\ position' = position + 1
  /\ UNCHANGED <<workdir, prior, connects, order, paths, opened, conversion, pc,
                 failure, fieldvars, mentionvars>>

\* the loop of output_markdown ends, and the run with it
Finish ==
  /\ pc = "render"
  /\ position = Len(order)
  /\ pc' = "done"
  /\ UNCHANGED <<workdir, prior, output, connects, order, paths, opened,
                 conversion, failure, position, fieldvars, mentionvars>>

Next == Build \/ BuildRaises \/ CreateCleanOutputDir \/ OutputMarkdown \/ Finish

Spec == Init /\ [][Next]_vars

\* ------------------------------------------------- the field extractors

\* the most spaces written after a label
MaxSpaces == 3

Labels ==
  {<<"P","E","P">>, <<"T","i","t","l","e">>, <<"S","t","a","t","u","s">>, <<"T","y","p","e">>, <<"T","o","p","i","c">>, <<"A","u","t","h","o","r">>, <<"B","D","F","L","-","D","e","l","e","g","a","t","e">>,
   <<"P","E","P","-","D","e","l","e","g","a","t","e">>}

FieldValues == {<<"4","4","0">>, <<"1","2","3","4","5">>, <<"C","o","o","l">>, <<"J","o"," ","D"," ","<","j","@","x",">",","," ","A","l"," ","B","!">>}

\* the whitespace written between a label and its value
Gaps == {[i \in 1..k |-> " "] : k \in 0..MaxSpaces} \cup {<<"\t">>}

field_text(label, gap, value) == label \o <<":">> \o gap \o value \o <<"\n">>

InitField ==
  /\ subject \in [label : Labels, value : FieldValues]
  /\ calls = <<>>
  /\ NoRun
  /\ NoMentions

\* a call of an extractor on the subject written with gap after its label
Called(label, gap, outcome) ==
  /\ subject.label = label
  /\ gap \in Gaps \ DOMAIN calls
  /\ calls' = (gap :> outcome) @@ calls
  /\ UNCHANGED <<subject, runvars, mentionvars>>

GetIdentifier ==
  \E gap \in Gaps :
    Called(<<"P","E","P">>, gap, get_identifier(field_text(<<"P","E","P">>, gap, subject.value)))

GetTitle ==
  \E gap \in Gaps :
    Called(<<"T","i","t","l","e">>, gap, get_title(field_text(<<"T","i","t","l","e">>, gap, subject.value)))

GetStatus ==
  \E gap \in Gaps :
    Called(<<"S","t","a","t","u","s">>, gap, get_status(field_text(<<"S","t","a","t","u","s">>, gap, subject.value)))

GetType ==
  \E gap \in Gaps :
    Called(<<"T","y","p","e">>, gap, get_type(field_text(<<"T","y","p","e">>, gap, subject.value)))

GetTopics ==
  \E gap \in Gaps :
    Called(<<"T","o","p","i","c">>, gap, get_topics(field_text(<<"T","o","p","i","c">>, gap, subject.value)))

GetAuthors ==
  \E gap \in Gaps :
    Called(<<"A","u","t","h","o","r">>, gap, get_authors(field_text(<<"A","u","t","h","o","r">>, gap, subject.value)))

GetDelegate ==
  \E gap \in Gaps, label \in {<<"B","D","F","L","-","D","e","l","e","g","a","t","e">>, <<"P","E","P","-","D","e","l","e","g","a","t","e">>} :
    Called(label, gap, get_delegate(field_text(label, gap, subject.value)))

NextField ==
  GetIdentifier \/ GetTitle \/ GetStatus \/ GetType \/ GetTopics \/ GetAuthors
    \/ GetDelegate

SpecField == InitField /\ [][NextField]_vars

\* ------------------------------------------------- the mention extractor

\* the most mentions a text under test holds
MaxMentions == 2

MentionNumbers == {<<"4","4","0">>, <<"0","4","4","0">>, <<"4","5","7">>, <<"1","2","3","4","5">>}

\* the text of a document of identifier 440 that mentions the tokens in order
RECURSIVE mention_text(_)
mention_text(mentions) ==
  IF mentions = <<>> THEN <<"P","E","P",":"," ","4","4","0","\n">>
  ELSE mention_text(SubSeq(mentions, 1, Len(mentions) - 1))
         \o mentions[Len(mentions)].pattern.opener \o mentions[Len(mentions)].number
         \o mentions[Len(mentions)].pattern.closer \o <<" ","i","s","\n">>

InitMentions ==
  /\ tokens = <<>>
  /\ mentioned = NotCalled
  /\ NoRun
  /\ NoField

\* one more mention is written into the text
Mention ==
  /\ Len(tokens) < MaxMentions
  /\ \E pattern \in MentionPatterns, number \in MentionNumbers :
       tokens' = Append(tokens, [pattern |-> pattern, number |-> number])
  /\ mentioned' = NotCalled
  /\ UNCHANGED <<runvars, fieldvars>>

GetMentionedPeps ==
  /\ ~mentioned.called
  /\ mentioned' = [called |-> TRUE, peps |-> get_mentioned_peps(mention_text(tokens))]
  /\ UNCHANGED <<tokens, runvars, fieldvars>>

NextMentions == Mention \/ GetMentionedPeps

SpecMentions == InitMentions /\ [][NextMentions]_vars

\* ------------------------------------------------------ the run, claims

identifier_of(name) == get_identifier(content_of(name)).val

has_required(name) ==
  /\ get_identifier(content_of(name)).exc = ""
  /\ get_title(content_of(name)).exc = ""
  /\ get_status(content_of(name)).exc = ""
  /\ get_type(content_of(name)).exc = ""

globbed == glob({f.name : f \in workdir})

\* the record a file yields by itself, its conversion as the run saw it
info_of(name) ==
  [markdown |-> IF conversion[name].exc = "ValueError" THEN ErrorMarker
                ELSE conversion[name].val,
   mentions |-> get_mentioned_peps(content_of(name)),
   status |-> get_status(content_of(name)).val,
   topics |-> get_topics(content_of(name)),
   title |-> get_title(content_of(name)).val,
   type |-> get_type(content_of(name)).val,
   authors |-> get_authors(content_of(name)),
   delegate |-> get_delegate(content_of(name))]

\* the file opened last among those of identifier pep
last_of(pep) ==
  opened[CHOOSE i \in DOMAIN opened :
           /\ identifier_of(opened[i]) = pep
           /\ \A j \in DOMAIN opened : identifier_of(opened[j]) = pep => j <= i]

\* what one rendering of a record may be, over the iteration orders of its sets
Renderings(pep, info) ==
  {written(pep, info, topics, mentions, authors) :
     topics \in Orderings(info.topics), mentions \in Orderings(info.mentions),
     authors \in Orderings(info.authors)}

SectionHeaders == {<<"#","#"," ","M","e","n","t","i","o","n","s">>, <<"#","#"," ","A","u","t","h","o","r","s">>, <<"#","#"," ","D","e","l","e","g","a","t","e">>, <<"#","#"," ","C","o","n","t","e","n","t">>}

\* the header of the section line k of lines is in, <<>> before the first
section_of(lines, k) ==
  LET at == {j \in 1..k : lines[j] \in SectionHeaders}
  IN  IF at = {} THEN <<>> ELSE lines[CHOOSE j \in at : \A i \in at : i <= j]

endswith(s, lit) == Len(s) >= Len(lit) /\ SubSeq(s, Len(s) - Len(lit) + 1, Len(s)) = lit

\* the names [[x]] the lines of a section of text refer to
links(text, header) ==
  LET lines == splitlines(text)
  IN  {SubSeq(lines[k], 5, Len(lines[k]) - 2) :
         k \in {i \in DOMAIN lines :
                  /\ section_of(lines, i) = header
                  /\ startswith(lines[i], 1, <<"-"," ","[","[">>)
                  /\ endswith(lines[i], <<"]","]">>)}}
      \cup
      {SubSeq(lines[k], 3, Len(lines[k]) - 2) :
         k \in {i \in DOMAIN lines :
                  /\ section_of(lines, i) = header
                  /\ startswith(lines[i], 1, <<"[","[">>)
                  /\ endswith(lines[i], <<"]","]">>)}}

\* the text of the Content section
content_section(text) ==
  LET i == find(text, <<"\n","#","#"," ","C","o","n","t","e","n","t","\n","\n">>)
  IN  SubSeq(text, i + Len(<<"\n","#","#"," ","C","o","n","t","e","n","t","\n","\n">>), Len(text))

file_of(name) == name \o <<".","m","d">>

\* the people the records refer to, a delegate only when it is rendered
people ==
  UNION {connects[pep].authors
           \cup (IF truthy(connects[pep].delegate) THEN {connects[pep].delegate[1]} ELSE {}) :
         pep \in DOMAIN connects}

\* C1: a run that a missing required field aborts leaves the output directory as
\* it was before the run and renders nothing, and the output directory is reset
\* (and anything rendered) only once every discovered document has been built
C1_AbortLeavesOutput ==
  /\ pc = "aborted" =>
       /\ failure = "IndexError"
       /\ ~has_required(opened[Len(opened)])
       /\ output = prior
       /\ position = 0
  /\ pc \in {"render", "done"} => paths = <<>> /\ Range(opened) = globbed
  /\ output # prior => pc \in {"render", "done"}

C1_Witness ==
  /\ pc = "aborted"
  /\ prior # <<>>
  /\ Len(opened) = 2
  /\ DOMAIN connects # {}

\* C2 as stated: with all required fields present a failed conversion never
\* aborts the run, and every document whose conversion failed has its own output
\* file whose Content section is the error marker
C2_Original ==
  (\A name \in globbed : has_required(name)) =>
    /\ pc # "aborted"
    /\ pc = "done" =>
         \A name \in Range(opened) :
           conversion[name] = ValueError =>
             /\ file_of(identifier_of(name)) \in DOMAIN output
             /\ content_section(output[file_of(identifier_of(name))]) = ErrorMarker \o <<"\n">>

\* C2 amended: with all required fields present a failed conversion never aborts
\* the run; every document that no later file of the same identifier replaces
\* is rendered from its own record alone, whatever the conversions of the other
\* documents did, its Content section the error marker if its conversion failed
C2_ConversionFailureIsLocal ==
  (\A name \in globbed : has_required(name)) =>
    /\ pc # "aborted"
    /\ pc = "done" =>
         \A name \in Range(opened) :
           LET pep == identifier_of(name)
           IN  /\ file_of(pep) \in DOMAIN output
               /\ name = last_of(pep) =>
                    /\ connects[pep] = info_of(name)
                    /\ output[file_of(pep)] \in Renderings(pep, info_of(name))
                    /\ conversion[name] = ValueError =>
                         content_section(output[file_of(pep)]) = ErrorMarker \o <<"\n">>

C2_Witness ==
  /\ pc = "done"
  /\ \E a, b \in Range(opened) :
       /\ conversion[a] = ValueError
       /\ conversion[b] # ValueError
       /\ identifier_of(a) # identifier_of(b)
       /\ content_section(output[file_of(identifier_of(a))]) = ErrorMarker \o <<"\n">>

\* C3: after a run that completes the output directory holds exactly one file per
\* record, holding one rendering of it, and one empty file per author and
\* rendered delegate, whatever it held before the run
C3_OutputIsThisRun ==
  pc = "done" =>
    /\ DOMAIN output = {file_of(pep) : pep \in DOMAIN connects}
                         \cup {file_of(n) : n \in people}
    /\ \A pep \in DOMAIN connects :
         output[file_of(pep)] \in Renderings(pep, connects[pep])
    /\ \A n \in people \ DOMAIN connects : output[file_of(n)] = <<>>

C3_Witness ==
  /\ pc = "done"
  /\ prior # <<>>
  /\ DOMAIN prior \ DOMAIN output # {}
  /\ \E name \in DOMAIN prior \cap DOMAIN output : output[name] # prior[name]
  /\ people # {}

\* C4 as stated: every name in the authors set or the delegate field of a
\* record that is no identifier has an empty file, and the record's own file
\* refers to it
C4_Original ==
  pc = "done" =>
    \A pep \in DOMAIN connects :
      /\ \A n \in connects[pep].authors \ DOMAIN connects :
           /\ file_of(n) \in DOMAIN output
           /\ output[file_of(n)] = <<>>
           /\ n \in links(output[file_of(pep)], <<"#","#"," ","A","u","t","h","o","r","s">>)
      /\ \A n \in Range(connects[pep].delegate) \ DOMAIN connects :
           /\ file_of(n) \in DOMAIN output
           /\ output[file_of(n)] = <<>>
           /\ n \in links(output[file_of(pep)], <<"#","#"," ","D","e","l","e","g","a","t","e">>)

\* C4 amended: the same of every author and of every delegate that is not the
\* empty string; and while the records are rendered, in whatever order, a file
\* that is no record's stays empty
C4_StubsExistEmpty ==
  /\ pc = "done" =>
       \A pep \in DOMAIN connects :
         /\ \A n \in connects[pep].authors \ DOMAIN connects :
              /\ file_of(n) \in DOMAIN output
              /\ output[file_of(n)] = <<>>
              /\ n \in links(output[file_of(pep)], <<"#","#"," ","A","u","t","h","o","r","s">>)
         /\ \A n \in (Range(connects[pep].delegate) \ {<<>>}) \ DOMAIN connects :
              /\ file_of(n) \in DOMAIN output
              /\ output[file_of(n)] = <<>>
              /\ n \in links(output[file_of(pep)], <<"#","#"," ","D","e","l","e","g","a","t","e">>)
  /\ pc \in {"render", "done"} =>
       \A name \in DOMAIN output :
         name \notin {file_of(pep) : pep \in DOMAIN connects} => output[name] = <<>>

C4_Witness ==
  /\ pc = "done"
  /\ \E p, q \in DOMAIN connects :
       /\ p # q
       /\ \E n \in connects[p].authors \cap Range(connects[q].delegate) :
            n # <<>> /\ output[file_of(n)] = <<>>

\* C5: only the files whose names match the convention are opened, and a run
\* that gets to render has opened exactly those, each once, in sorted order
C5_OnlyConventionFiles ==
  /\ \A i \in DOMAIN opened : PEP_FILENAME_PATTERN(opened[i])
  /\ pc \in {"render", "done"} =>
       opened = sorted({name \in {f.name : f \in workdir} : PEP_FILENAME_PATTERN(name)})

\* C8 as stated: after a run that completes every name a Mentions, Authors or
\* Delegate section refers to has its file
C8_Original ==
  pc = "done" =>
    \A pep \in DOMAIN connects :
      \A x \in links(output[file_of(pep)], <<"#","#"," ","M","e","n","t","i","o","n","s">>)
                 \cup links(output[file_of(pep)], <<"#","#"," ","A","u","t","h","o","r","s">>)
                 \cup links(output[file_of(pep)], <<"#","#"," ","D","e","l","e","g","a","t","e">>) :
        file_of(x) \in DOMAIN output

\* C8 amended: every name an Authors or Delegate section refers to has its
\* file; a name a Mentions section refers to has one exactly when it is the
\* identifier of a record or the name of an author or delegate referred to
C8_ReferencesResolve ==
  pc = "done" =>
    \A pep \in DOMAIN connects :
      /\ links(output[file_of(pep)], <<"#","#"," ","M","e","n","t","i","o","n","s">>) = connects[pep].mentions
      /\ links(output[file_of(pep)], <<"#","#"," ","A","u","t","h","o","r","s">>) = connects[pep].authors
      /\ \A x \in links(output[file_of(pep)], <<"#","#"," ","A","u","t","h","o","r","s">>)
                    \cup links(output[file_of(pep)], <<"#","#"," ","D","e","l","e","g","a","t","e">>) :
           file_of(x) \in DOMAIN output
      /\ \A x \in links(output[file_of(pep)], <<"#","#"," ","M","e","n","t","i","o","n","s">>) :
           file_of(x) \in DOMAIN output <=> x \in DOMAIN connects \cup people

C8_Witness ==
  /\ pc = "done"
  /\ \E pep \in DOMAIN connects :
       /\ \E x \in links(output[file_of(pep)], <<"#","#"," ","M","e","n","t","i","o","n","s">>) :
            file_of(x) \notin DOMAIN output
       /\ \E x \in links(output[file_of(pep)], <<"#","#"," ","M","e","n","t","i","o","n","s">>) :
            file_of(x) \in DOMAIN output
       /\ links(output[file_of(pep)], <<"#","#"," ","D","e","l","e","g","a","t","e">>) # {}

\* C9: once the build has ended every record is, field by field, the record of
\* the file opened last among those of its identifier, each identifier is
\* rendered once, and its file holds one rendering of that record
C9_LastFileWins ==
  pc \in {"render", "done"} =>
    /\ Len(order) = Cardinality(DOMAIN connects)
    /\ Range(order) = DOMAIN connects
    /\ \A pep \in DOMAIN connects :
         /\ connects[pep] = info_of(last_of(pep))
         /\ pc = "done" =>
              output[file_of(pep)] \in Renderings(pep, info_of(last_of(pep)))

C9_Witness ==
  /\ pc = "done"
  /\ \E a, b \in Range(opened) :
       /\ a # b
       /\ identifier_of(a) = identifier_of(b)
       /\ \A k \in DOMAIN info_of(a) : info_of(a)[k] # info_of(b)[k]

\* ------------------------------------------------ the extractors, claims

is_identifier(s) == Len(s) = IdentifierWidth /\ \A i \in DOMAIN s : s[i] \in Digits

\* C6 as stated: the identifier get_identifier returns is 4 decimal digits
C6_Original ==
  subject.label = <<"P","E","P">> =>
    \A gap \in DOMAIN calls : calls[gap].exc = "" => is_identifier(calls[gap].val)

\* C6 amended: the identifier get_identifier returns is the value of the field
\* with zeros put before it up to 4 characters; it is 4 decimal digits exactly
\* when the value is at most 4 characters, all decimal digits
C6_IdentifierPadded ==
  subject.label = <<"P","E","P">> =>
    \A gap \in DOMAIN calls :
      calls[gap].exc = "" =>
        LET id == calls[gap].val
            zeros == Len(id) - Len(subject.value)
        IN  /\ Len(id) = IF Len(subject.value) < 4 THEN 4 ELSE Len(subject.value)
            /\ SubSeq(id, zeros + 1, Len(id)) = subject.value
            /\ \A i \in 1..zeros : id[i] = "0"
            /\ is_identifier(id) <=>
                 /\ Len(subject.value) <= 4
                 /\ \A i \in DOMAIN subject.value : subject.value[i] \in Digits

C6_Witness ==
  /\ subject = [label |-> <<"P","E","P">>, value |-> <<"4","4","0">>]
  /\ <<" "," "," ">> \in DOMAIN calls
  /\ calls[<<" "," "," ">>] = Return(<<"0","4","4","0">>)

\* C10 as stated: an extractor returns a value, and the same one, whatever the
\* whitespace after the label, none included
C10_Original ==
  \A gap, other \in DOMAIN calls :
    /\ calls[gap] # IndexError
    /\ calls[gap] = calls[other]

\* C10 amended: identifier, title, status and type return the same value
\* whatever the whitespace after the label, provided there is some, and fail as
\* for a missing field when there is none; topics, authors and delegate find
\* their field exactly when a space follows the label at once
C10_WhitespaceAfterLabel ==
  IF subject.label \in {<<"P","E","P">>, <<"T","i","t","l","e">>, <<"S","t","a","t","u","s">>, <<"T","y","p","e">>}
  THEN \A gap, other \in DOMAIN calls :
         IF gap = <<>> THEN calls[gap] = IndexError
         ELSE /\ calls[gap].exc = ""
              /\ other # <<>> => calls[gap] = calls[other]
  ELSE \A gap \in DOMAIN calls :
         (IF subject.label \in {<<"T","o","p","i","c">>, <<"A","u","t","h","o","r">>} THEN calls[gap] # {}
          ELSE calls[gap] # None)
           <=> (gap # <<>> /\ gap[1] = " ")

C10_Witness ==
  /\ subject = [label |-> <<"S","t","a","t","u","s">>, value |-> <<"C","o","o","l">>]
  /\ {<<" ">>, <<" "," "," ">>, <<"\t">>, <<>>} \subseteq DOMAIN calls
  /\ calls[<<" "," "," ">>] = Return(<<"c","o","o","l">>)

====
